---- MODULE Spec2Model ----
(***************************************************************************)
(* Model of the multimodal-content-gen job orchestrator (app/main.py) and  *)
(* of the pipelines it calls (app/pipelines/*.py).                         *)
(*                                                                         *)
(* Conventions                                                             *)
(*  - A JSON object / Python dict is a TLA+ function from key strings; a   *)
(*    key that is absent is outside its DOMAIN.                            *)
(*  - Python None is NoneVal.  A pydantic sub-model instance is a record   *)
(*    [cls |-> <class name>, fields |-> <dict>]; model_dump() turns it     *)
(*    into its dict.                                                       *)
(*  - A formatted string is the sequence of its pieces (literals and       *)
(*    substituted values), so that two strings are equal exactly when they *)
(*    were built from the same pieces.                                     *)
(*  - A float score is its nominal value in hundredths (0.7 is 70).        *)
(*  - uuid4() is a fresh id: ids are handed out as 1, 2, ...               *)
(***************************************************************************)
EXTENDS Integers, Sequences, FiniteSets, TLC

\* ------------------------------------------------------------ bounds
MaxJobs == 2        \* submits accepted in one behaviour (one handler each)
MaxChannels == 2    \* longest channel list of a request
MaxRejected == 1    \* rejected (422) submits that are counted
MaxCopies == 10     \* longest list of copies handed to score_content on its own
MaxImages == 10     \* longest list of images handed to score_content on its own

\* ------------------------------------------------------- basic values
NoneVal == [cls |-> "NoneType"]

IsNone(v) == v = NoneVal

Min(a, b) == IF a <= b THEN a ELSE b

\* channel identifiers a request may name ("linkedin" is unrecognized)
Channels == {"email", "instagram", "linkedin"}

ChannelLists == UNION {[1..n -> Channels] : n \in 0..MaxChannels}

\* The set of dicts over the key sets in KeySets, with the values of full.
Restrict(full, keys) == [k \in keys |-> full[k]]

\* dict.get(key, default)
Get(d, key, default) == IF key \in DOMAIN d THEN d[key] ELSE default

\* ------------------------------------------------- app/schemas.py
AudienceTargetDefaults ==
    [age_range |-> "25-45", gender |-> "all", location |-> "global",
     interests |-> <<>>, platform_preference |-> "all"]

BrandAssetsDefaults ==
    [primary_color |-> "#10b981", secondary_color |-> "#059669",
     logo_url |-> NoneVal, brand_voice |-> "professional", tone |-> "neutral",
     brand_values |-> <<"quality", "innovation", "trust">>]

\* Validation of a sub-model: the given keys over the class defaults.
SubModel(cls, defaults, given) ==
    [cls |-> cls,
     fields |-> [k \in DOMAIN defaults |-> Get(given, k, defaults[k])]]

OptionalSubModel(body, key, cls, defaults) ==
    IF key \in DOMAIN body THEN SubModel(cls, defaults, body[key]) ELSE NoneVal

\* title and brief are the only fields without a default.
RequiredFields == {"title", "brief"}

IsValidBody(body) == RequiredFields \subseteq DOMAIN body

\* GenerateRequest(**body): unknown keys are ignored, defaults filled in.
GenerateRequest(body) ==
    [title |-> body["title"],
     brief |-> body["brief"],
     brand_profile_id |-> Get(body, "brand_profile_id", "demo"),
     channels |-> Get(body, "channels", <<>>),
     audience_target |->
        OptionalSubModel(body, "audience_target", "AudienceTarget", AudienceTargetDefaults),
     brand_assets |->
        OptionalSubModel(body, "brand_assets", "BrandAssets", BrandAssetsDefaults),
     generate_variations |-> Get(body, "generate_variations", TRUE),
     content_length |-> Get(body, "content_length", "medium"),
     include_emoji |-> Get(body, "include_emoji", FALSE)]

\* BaseModel.model_dump(): sub-models become their dicts, None stays None.
DumpValue(v) == IF IsNone(v) THEN NoneVal ELSE v.fields

model_dump(payload) ==
    [k \in DOMAIN payload |->
        IF k \in {"audience_target", "brand_assets"}
        THEN DumpValue(payload[k]) ELSE payload[k]]

\* ------------------------------------------- app/pipelines/rag.py
BRAND_KNOWLEDGE == {"demo", "tech_startup", "fashion_brand"}

\* BRAND_KNOWLEDGE.get(brand_profile_id, BRAND_KNOWLEDGE["demo"]): the profile
\* whose voice, audience, messages, tone and values are formatted.
BrandProfile(brand_profile_id) ==
    IF brand_profile_id \in BRAND_KNOWLEDGE THEN brand_profile_id ELSE "demo"

\* get_embedding: get_openai_client is not a name of rag.py, so the call
\* raises NameError inside the try and the zero vector is returned, whatever
\* the text and whether or not the embedding service would have answered.
get_embedding(text) == "zero vector"

\* query is the outcome of the vector search: "failed" (get_embedding or
\* pinecone_client.query raised) or "matches".  The search runs only with a
\* Pinecone index and an OpenAI key.
rag_retrieve(input_data, env, query) ==
    LET brand_profile_id == Get(input_data, "brand_profile_id", "demo")
        title == Get(input_data, "title", "")
        brief == Get(input_data, "brief", "")
        brand_context == BrandProfile(brand_profile_id)
    IN  IF env.pinecone /\ env.openai /\ query = "matches"
        THEN [section |-> "Relevant Knowledge", profile |-> brand_context,
              title |-> "", brief |-> ""]
        ELSE [section |-> "Campaign Context", profile |-> brand_context,
              title |-> title, brief |-> brief]

\* ------------------------------------- app/pipelines/promptify.py
\* mutant: the social channels get the default template
TemplateKeyEmailOnly(channel) ==
    IF channel \in {"email"} THEN "email" ELSE "default"

TemplateKey(channel) ==
    IF channel \in {"email"} THEN "email"
    ELSE IF channel \in {"instagram", "facebook", "twitter"} THEN "social_media"
    ELSE "default"

\* The rendered prompt: the template and the values substituted into it.
\* (The email template has no {{ channel }} placeholder.)
promptify(input_data) ==
    LET title == Get(input_data, "title", "Untitled")
        brief == Get(input_data, "brief", "")
        channel == Get(input_data, "channel", "general")
        brand_profile_id == Get(input_data, "brand_profile_id", "demo")
        brand_context == Get(input_data, "brand_context",
                             "No specific brand context provided.")
        template_key == TemplateKey(channel)
    IN  [template |-> template_key,
         channel |-> IF template_key = "email" THEN "" ELSE channel,
         title |-> title, brief |-> brief,
         brand_profile_id |-> brand_profile_id,
         brand_context |-> brand_context]

\* ------------------------------------------ app/pipelines/text.py
\* A function's outcome: a raised exception or a returned value.
Raise(e) == [raised |-> TRUE, error |-> e]

Return(v) == [raised |-> FALSE, value |-> v]

\* str(e) of the AttributeError of None.get(...)
NoneGetError == "'NoneType' object has no attribute 'get'"

\* Replies of an HTTP capability, as call_openai_api / call_dalle_api hand
\* them on: None (no key, non-200 status, transport error), a JSON body
\* without the expected list, a JSON body whose list cannot be indexed as the
\* code does, or a well-formed body carrying a content.
NoneResp == [kind |-> "None", content |-> ""]

NoListResp == [kind |-> "no_list", content |-> ""]

MalformedResp == [kind |-> "malformed", content |-> ""]

OkResp(c) == [kind |-> "ok", content |-> c]

\* What the text model can write (already stripped), with the measures the
\* code takes of it: len(content), content.count('#'), the vocabulary words
\* content.lower() contains.
Contents == {"Shop the sale today", "#a #b #c #d #e caption of 150 chars"}

ContentLen(c) == IF c = "Shop the sale today" THEN 19 ELSE 150

ContentHashtags(c) == IF c = "Shop the sale today" THEN 0 ELSE 5

ContentWords(c) == IF c = "Shop the sale today" THEN {"shop"} ELSE {}

VariationContent == "Variation copy"

\* call_openai_api: None without a key, else the reply of the provider.
call_openai_api(env, reply) == IF ~env.openai THEN NoneResp ELSE reply

\* `response and "choices" in response`
HasChoices(response) == response.kind \in {"malformed", "ok"}

CHANNEL_PROMPTS == {"email", "instagram", "facebook", "twitter"}

\* CHANNEL_PROMPTS.get(channel, CHANNEL_PROMPTS["email"])
TextTemplate(channel) == IF channel \in CHANNEL_PROMPTS THEN channel ELSE "email"

CtaWords == {"click", "visit", "shop", "buy", "learn", "discover", "try", "get"}

calculate_engagement_score(content, channel) ==
    LET base == 70
        len == ContentLen(content)
        hashtag_count == ContentHashtags(content)
        s1 == IF channel = "twitter" /\ len < 200 THEN base + 10
              ELSE IF channel \in {"facebook", "instagram"} /\ 100 < len /\ len < 400
                   THEN base + 10 ELSE base
        s2 == IF channel = "instagram" /\ 5 <= hashtag_count /\ hashtag_count <= 12
              THEN s1 + 10
              ELSE IF channel = "twitter" /\ 1 <= hashtag_count /\ hashtag_count <= 3
                   THEN s1 + 10 ELSE s1
        s3 == IF ContentWords(content) \cap CtaWords # {} THEN s2 + 10 ELSE s2
    IN  Min(100, s3)

Take(seq, n) == SubSeq(seq, 1, Min(n, Len(seq)))

generate_optimization_tips(channel, content, audience_target) ==
    LET t1 == IF ContentLen(content) < 50
              THEN <<"Consider adding more details to increase engagement">> ELSE <<>>
        t2 == IF ContentWords(content) \cap {"click", "visit", "shop", "buy"} = {}
              THEN <<"Add a clear call-to-action to drive conversions">> ELSE <<>>
        t3 == IF channel = "instagram" /\ ContentHashtags(content) < 5
              THEN <<"Add more relevant hashtags to increase discoverability">> ELSE <<>>
        t4 == IF channel = "twitter" /\ ContentLen(content) > 250
              THEN <<"Consider shortening for better Twitter engagement">> ELSE <<>>
        t5 == IF /\ Get(audience_target, "age_range", "") = "18-24"
                 /\ ContentWords(content) \cap {"trending", "viral", "now"} = {}
              THEN <<"Consider adding trending language for younger audience">> ELSE <<>>
    IN  Take(t1 \o t2 \o t3 \o t4 \o t5, 3)

\* The loop over variation_prompts[:2]: a None reply adds nothing, an
\* unindexable reply raises and the except clause keeps what was collected.
RECURSIVE VariationsFrom(_, _, _)
VariationsFrom(env, replies, i) ==
    IF i > Len(replies) THEN <<>>
    ELSE LET response == call_openai_api(env, replies[i])
         IN  IF ~HasChoices(response) THEN VariationsFrom(env, replies, i + 1)
             ELSE IF response.kind = "malformed" THEN <<>>
             ELSE <<response.content>> \o VariationsFrom(env, replies, i + 1)

generate_content_variations(env, replies) == VariationsFrom(env, Take(replies, 2), 1)

FallbackCopy(channel, title, brief, note) ==
    <<"Generated copy for ", channel, ": ", title, " - ", brief, note>>

MockNote == "[Note: OpenAI API call failed. This is a mock response.]"

\* reply: the provider's reply to the primary call; var_replies: its replies
\* to the variation calls.
generate_text(input_data, env, reply, var_replies) ==
    LET channel == Get(input_data, "channel", "general")
        title == Get(input_data, "title", "Your Campaign")
        brief == Get(input_data, "brief", "")
        audience_target == input_data["audience_target"]
        brand_assets == input_data["brand_assets"]
        generate_variations == Get(input_data, "generate_variations", TRUE)
        response == call_openai_api(env, reply)
    IN  IF IsNone(audience_target) \/ IsNone(brand_assets)
        THEN Raise(NoneGetError)
        ELSE IF ~HasChoices(response)
        THEN Return([primary |-> FallbackCopy(channel, title, brief, MockNote),
                     variations |-> <<>>,
                     engagement_score |-> 70,
                     optimization_tips |->
                        <<"Consider A/B testing different headlines",
                          "Add more specific call-to-actions">>])
        ELSE IF response.kind = "malformed"
        THEN Return([primary |-> FallbackCopy(channel, title, brief, "[Error]"),
                     variations |-> <<>>,
                     engagement_score |-> 60,
                     optimization_tips |-> <<"Check your inputs and try again">>])
        ELSE Return([primary |-> <<response.content>>,
                     variations |->
                        IF generate_variations
                        THEN generate_content_variations(env, var_replies)
                        ELSE <<>>,
                     engagement_score |->
                        calculate_engagement_score(response.content, channel),
                     optimization_tips |->
                        generate_optimization_tips(channel, response.content,
                                                   audience_target)])

\* ----------------------------------------- app/pipelines/image.py
CHANNEL_IMAGE_CONFIG == {"email", "instagram", "facebook", "twitter"}

\* CHANNEL_IMAGE_CONFIG.get(channel, CHANNEL_IMAGE_CONFIG["email"])
ImageConfig(channel) == IF channel \in CHANNEL_IMAGE_CONFIG THEN channel ELSE "email"

\* str.title() on the channel identifiers of the model
TitleCase(channel) ==
    CASE channel = "email" -> "Email"
      [] channel = "instagram" -> "Instagram"
      [] channel = "facebook" -> "Facebook"
      [] channel = "twitter" -> "Twitter"
      [] channel = "linkedin" -> "Linkedin"
      [] channel = "general" -> "General"
      [] OTHER -> channel

\* mutant: the label names the channel only
get_placeholder_image_untitled(channel, title) ==
    [host |-> "via.placeholder.com",
     path |-> <<"600x400/3b82f6/ffffff?text=", TitleCase(channel)>>]

\* A URL is its host and the pieces of the rest.
get_placeholder_image(channel, title) ==
    [host |-> "via.placeholder.com",
     path |-> <<"600x400/3b82f6/ffffff?text=", TitleCase(channel), ": ", title>>]

\* The URL in a well-formed provider reply: one per call, so it is named by
\* the call: the channel it was made for and its prompt (template family,
\* title, brief).
ProviderUrl(channel, prompt) == [host |-> "provider", path |-> <<channel>> \o prompt]

\* title.replace(' ', '_') on the titles of the model
Underscored(title) == IF title = "Summer Sale" THEN "Summer_Sale" ELSE title

\* store_image_in_s3: the bucket URL, or the provider's URL when the download
\* or the upload raised.
store_image_in_s3(image_url, filename, stored) ==
    IF stored THEN [host |-> "s3.amazonaws.com",
                    path |-> <<"generated-images/">> \o filename \o <<".png">>]
    ELSE image_url

\* call_dalle_api: None without a key, else the reply of the provider.
call_dalle_api(env, reply) == IF ~env.openai THEN NoneResp ELSE reply

\* `response and "data" in response and len(response["data"]) > 0`
HasData(response) == response.kind \in {"malformed", "ok"}

\* reply: the provider's reply; stored: whether the copy to S3 succeeded.
generate_image(input_data, env, reply, stored) ==
    LET channel == Get(input_data, "channel", "general")
        title == Get(input_data, "title", "Your Campaign")
        brief == Get(input_data, "brief", "")
        prompt == <<ImageConfig(channel), title, brief>>
        response == call_dalle_api(env, reply)
    IN  IF ~env.openai THEN get_placeholder_image(channel, title)
        ELSE IF ~HasData(response) THEN get_placeholder_image(channel, title)
        ELSE IF response.kind = "malformed" THEN get_placeholder_image(channel, title)
        ELSE IF env.s3
             THEN store_image_in_s3(ProviderUrl(channel, prompt),
                                    <<channel, "_", Underscored(title)>>, stored)
             ELSE ProviderUrl(channel, prompt)

\* ----------------------------------------- app/pipelines/score.py
\* get_openai_client(): the module's client after the call.  It is created
\* lazily, with a key only, and stays None when the constructor raises.
get_openai_client(client, env, created) ==
    IF client = "None" /\ env.openai /\ created THEN "OpenAI" ELSE client

\* round(num / den, 2) in hundredths, for num / den in hundredths
RoundDiv(num, den) == (2 * num + den) \div (2 * den)

RECURSIVE SumSeq(_)
SumSeq(seq) == IF seq = <<>> THEN 0 ELSE Head(seq) + SumSeq(Tail(seq))

\* The three LLM evaluations read the name openai_client, which is a local of
\* score_content and not a global of the module: the NameError is caught by
\* their own except clause and the default is returned.
evaluate_copy_quality(copy) == 70

\* mutant: the client is reached and float(text) of its reply "5" is returned
evaluate_brand_consistency_of_reply(copies) == 500

evaluate_brand_consistency(copies) == 80

evaluate_engagement_potential(copies) == 70

\* `"placehold.co" in image_url`
MentionsPlaceholdCo(image_url) ==
    \/ image_url.host = "placehold.co"
    \/ \E i \in DOMAIN image_url.path : image_url.path[i] = "placehold.co"

evaluate_image_quality(image_url) ==
    IF ~MentionsPlaceholdCo(image_url) THEN 80 ELSE 50

\* mutant: the two weights are exchanged
HeuristicOverallSwapped(total_copies, total_images) ==
    Min(100, 50 + 2 * total_copies + 5 * total_images)

HeuristicOverall(total_copies, total_images) ==
    Min(100, 50 + 5 * total_copies + 2 * total_images)

\* client: the module's client when score_content has called get_openai_client
score_content(content, client) ==
    LET copies == Get(content, "copies", <<>>)
        images == Get(content, "images", <<>>)
        total_copies == Len(copies)
        total_images == Len(images)
        copy_scores == [i \in DOMAIN copies |-> evaluate_copy_quality(copies[i])]
        image_scores == [i \in DOMAIN images |-> evaluate_image_quality(images[i])]
        nc == IF Len(copy_scores) > 1 THEN Len(copy_scores) ELSE 1
        ni == IF Len(image_scores) > 1 THEN Len(image_scores) ELSE 1
        brand_consistency == evaluate_brand_consistency(copies)
        engagement_potential == evaluate_engagement_potential(copies)
    IN  IF client = "None"
        THEN [overall_score |-> HeuristicOverall(total_copies, total_images),
              copy_score |-> 70,
              image_score |-> 60,
              brand_consistency |-> 80,
              engagement_potential |-> 70,
              metrics |-> [total_copies |-> total_copies,
                           total_images |-> total_images]]
        ELSE [overall_score |->
                 RoundDiv(SumSeq(copy_scores) * 4 * ni + SumSeq(image_scores) * 3 * nc
                            + (brand_consistency * 2 + engagement_potential) * nc * ni,
                          10 * nc * ni),
              copy_score |-> RoundDiv(SumSeq(copy_scores), nc),
              image_score |-> RoundDiv(SumSeq(image_scores), ni),
              brand_consistency |-> brand_consistency,
              engagement_potential |-> engagement_potential,
              metrics |-> [total_copies |-> total_copies,
                           total_images |-> total_images,
                           copy_scores |-> copy_scores,
                           image_scores |-> image_scores]]

\* ------------------------------------------------- app/main.py
get_optimal_posting_time(channel) ==
    CASE channel = "facebook" -> "1:00 PM - 3:00 PM"
      [] channel = "instagram" -> "11:00 AM - 1:00 PM"
      [] channel = "twitter" -> "12:00 PM - 3:00 PM"
      [] channel = "email" -> "10:00 AM - 11:00 AM"
      [] OTHER -> "12:00 PM - 2:00 PM"

\* max(performance_predictions, key=predicted_engagement): the first of the
\* entries with the greatest value
BestChannel(preds) ==
    IF preds = <<>> THEN "None"
    ELSE LET best == CHOOSE i \in DOMAIN preds :
                        /\ \A k \in DOMAIN preds :
                              preds[k].predicted_engagement <= preds[i].predicted_engagement
                        /\ \A k \in 1..(i - 1) :
                              preds[k].predicted_engagement < preds[i].predicted_engagement
         IN  preds[best].channel

\* The fields of the insights that are read off the lists; the average and the
\* recommendations derived from it are left out.
generate_campaign_insights(multimodal_copies, performance_predictions) ==
    [best_performing_channel |-> BestChannel(performance_predictions),
     total_variations_generated |->
        SumSeq([i \in DOMAIN multimodal_copies |-> Len(multimodal_copies[i].variations)])]

\* {**payload.model_dump(), "brand_context": brand_context}
EnhancedPayload(payload, brand_context) ==
    model_dump(payload) @@ ("brand_context" :> brand_context)

\* {"channel": ch, **enhanced_payload}
ChannelData(ch, enhanced_payload) == ("channel" :> ch) @@ enhanced_payload

\* mutant: the entry is put in front of the list
list_prepend(list, entry) == <<entry>> \o list

\* list.append(entry) of lines 62, 70 and 73
list_append(list, entry) == Append(list, entry)

\* lines 62-68
CopyEntry(ch, text_result) ==
    [channel |-> ch,
     primary |-> Get(text_result, "primary", <<>>),
     variations |-> Get(text_result, "variations", <<>>),
     engagement_score |-> Get(text_result, "engagement_score", 70),
     optimization_tips |-> Get(text_result, "optimization_tips", <<>>)]

\* lines 73-78 (estimated_reach, a formatting of the engagement score, is left out)
PredictionEntry(ch, text_result) ==
    [channel |-> ch,
     predicted_engagement |-> Get(text_result, "engagement_score", 70),
     best_posting_time |-> get_optimal_posting_time(ch)]

\* lines 87-102
AssembleResult(l) ==
    [multimodal_copies |-> l.multimodal_copies,
     images |-> l.images,
     performance_predictions |-> l.performance_predictions,
     campaign_insights |->
        generate_campaign_insights(l.multimodal_copies, l.performance_predictions),
     meta |-> [score |-> l.score_result,
               brand_context |-> l.brand_context,
               prompt_used |-> l.prompt,
               generation_settings |->
                  [content_length |-> l.payload.content_length,
                   generate_variations |-> l.payload.generate_variations,
                   include_emoji |-> l.payload.include_emoji]]]

\* mutant: the stored input loses the channel list
NewJobWithoutChannels(payload) ==
    [status |-> "processing", progress |-> 0, result |-> NoneVal,
     input |-> [model_dump(payload) EXCEPT !["channels"] = <<>>]]

\* JOBS[job_id] = {...} of lines 32-37
NewJob(payload) ==
    [status |-> "processing", progress |-> 0, result |-> NoneVal,
     input |-> model_dump(payload)]

\* mutant: the update forgets the progress
CompletedJobSameProgress(job, result) ==
    [job EXCEPT !.status = "completed", !.result = result]

\* JOBS[job_id].update({...}) of lines 104-108
CompletedJob(job, result) ==
    [job EXCEPT !.status = "completed", !.progress = 100, !.result = result]

\* mutant: the update forgets the progress
FailedJobSameProgress(job, error) ==
    [job EXCEPT !.status = "failed", !.result = [error |-> error]]

\* mutant: the error payload also carries (empty) channel results
FailedJobWithCopies(job, error) ==
    [job EXCEPT !.status = "failed", !.progress = 100,
                !.result = [error |-> error, multimodal_copies |-> <<>>]]

\* JOBS[job_id].update({...}) of lines 111-115
FailedJob(job, error) ==
    [job EXCEPT !.status = "failed", !.progress = 100, !.result = [error |-> error]]

\* JobStatusResponse(job_id=..., status=..., progress=..., result=...)
JobStatusResponse(job_id, status, progress, result) ==
    [code |-> 200, job_id |-> job_id, status |-> status, progress |-> progress,
     result |-> result]

\* HTTPException(status_code=404, detail="Job not found")
NotFound == [code |-> 404, detail |-> "Job not found"]

\* ---------------------------------------------------- the inputs
\* The module-level configuration (app/config.py): whether OPENAI_API_KEY is
\* set and non-blank, whether the Pinecone index was opened, whether the S3
\* client was built.  Pinecone and S3 are only consulted with an OpenAI key.
Envs ==
    {e \in [openai : BOOLEAN, pinecone : BOOLEAN, s3 : BOOLEAN] :
        (e.pinecone \/ e.s3) => e.openai}

NoCredentials(e) == ~e.openai /\ ~e.pinecone /\ ~e.s3

FullBody(chs, brand) ==
    [title |-> "Summer Sale", brief |-> "50% off", brand_profile_id |-> brand,
     channels |-> chs,
     audience_target |-> [age_range |-> "18-24"],
     brand_assets |-> [brand_voice |-> "casual"],
     generate_variations |-> FALSE,
     invalid |-> "data"]

\* the request of the tests: no descriptors
TestKeys == {"title", "brief", "brand_profile_id", "channels"}

AllKeys == TestKeys \cup {"audience_target", "brand_assets"}

TwoChannels == <<"email", "instagram">>

\* Request bodies submitted without credentials: every channel list with and
\* without the descriptors, one descriptor only, other brands, defaults only,
\* and bodies that lack a required field.
Bodies ==
    {Restrict(FullBody(chs, "demo"), keys) : chs \in ChannelLists, keys \in {TestKeys, AllKeys}}
    \cup {Restrict(FullBody(<<"email">>, brand), AllKeys) : brand \in {"tech_startup", "acme"}}
    \cup {Restrict(FullBody(TwoChannels, "demo"), keys) :
            keys \in {TestKeys \cup {"audience_target"},
                      {"title", "brief"},
                      {"title", "channels"},
                      {"brief", "channels"},
                      {"invalid"}}}

\* Request bodies submitted with credentials configured: one channel, with
\* and without variations, with and without descriptors.
ProviderBodies ==
    {Restrict(FullBody(<<"instagram">>, "demo"), keys) :
        keys \in {AllKeys, AllKeys \cup {"generate_variations"}, TestKeys}}

\* Request bodies submitted when several submits run at once: one
\* (unrecognized) channel, no descriptors, no channels (and another title).
ConcurrentBodies ==
    {Restrict(FullBody(<<"linkedin">>, "demo"), AllKeys),
     Restrict(FullBody(<<"email">>, "demo"), TestKeys),
     [title |-> "Winter Sale", brief |-> "50% off"]}

\* What a behaviour explores: "requests" is one submit drawn from the wide
\* sets of bodies under every configuration; "interleavings" is up to MaxJobs
\* submits running at once, drawn from ConcurrentBodies, without credentials.
Scopes == {"requests", "interleavings"}

SubmitLimit(sc) == IF sc = "requests" THEN 1 ELSE MaxJobs

BodiesFor(sc, e) ==
    IF sc = "interleavings" THEN ConcurrentBodies
    ELSE IF NoCredentials(e) THEN Bodies ELSE ProviderBodies

\* The provider's replies to a text call and to the variation calls
TextReplies == {NoneResp, NoListResp, MalformedResp} \cup {OkResp(c) : c \in Contents}

VariationReplies ==
    {<<OkResp(VariationContent), OkResp(VariationContent)>>,
     <<NoneResp, OkResp(VariationContent)>>,
     <<MalformedResp, OkResp(VariationContent)>>}

ImageReplies == {NoneResp, NoListResp, MalformedResp, OkResp("url")}

\* ------------------------------------------------------ the state
VARIABLES
    scope,      \* what the behaviour explores (see Scopes)
    env,        \* the configuration, fixed when the modules are loaded
    client,     \* score.py's module-level OpenAI client: "None" or "OpenAI"
    JOBS,       \* config.JOBS: job id -> job dict
    h,          \* the generate() call of each job id: its position and locals
    g,          \* the get_job() call in flight: its position and locals
    submitted,  \* history: the body each accepted submit carried
    writes,     \* history: the terminal writes made to each job
    rejected,   \* history: the submits answered 422
    probe       \* a pipeline function called on its own: its arguments and value

vars == <<scope, env, client, JOBS, h, g, submitted, writes, rejected, probe>>

JobIds == 1..MaxJobs

\* ids a client may ask for: 0 stands for an id no submit ever returns
QueryIds == 0..MaxJobs

\* no pipeline call to remember
NoCall == [fn |-> "none"]

\* call is history: the pipeline call the handler made last, with what the
\* external capability answered; the step after it forgets it.  log is
\* history too: the stages the handler has invoked and the writes it has made
\* to JOBS, in order.
Idle ==
    [pc |-> "idle", payload |-> NoneVal, brand_context |-> NoneVal, prompt |-> NoneVal,
     i |-> 0, text_result |-> NoneVal, multimodal_copies |-> <<>>, images |-> <<>>,
     performance_predictions |-> <<>>, score_result |-> NoneVal, error |-> "",
     response |-> NoneVal, call |-> NoCall, log |-> <<>>]

GetIdle ==
    [pc |-> "idle", job_id |-> 0, status |-> "", progress |-> 0, result |-> NoneVal,
     response |-> NoneVal, terminal_at_start |-> FALSE]

Init ==
    /\ scope \in Scopes
    /\ env \in Envs
    /\ scope = "interleavings" => NoCredentials(env)
    /\ client = "None"
    /\ JOBS = <<>>
    /\ h = [j \in JobIds |-> Idle]
    /\ g = GetIdle
    /\ submitted = <<>>
    /\ writes = [j \in JobIds |-> 0]
    /\ rejected = 0
    /\ probe = NoCall

\* ---------------------------------------------- POST /generate
Terminal(status) == status \in {"completed", "failed"}

\* mutant: the body is stored as a job before it is validated
RejectStoresJob(body) ==
    /\ ~IsValidBody(body)
    /\ rejected < MaxRejected
    /\ rejected' = rejected + 1
    /\ JOBS' = Append(JOBS, [status |-> "processing", progress |-> 0,
                             result |-> NoneVal, input |-> body])
    /\ submitted' = Append(submitted, body)
    /\ UNCHANGED <<probe, scope, env, client, h, g, writes>>

\* A body without title or brief fails validation: FastAPI answers 422 and
\* generate() is not called.
Reject(body) ==
    /\ ~IsValidBody(body)
    /\ rejected < MaxRejected
    /\ rejected' = rejected + 1
    /\ UNCHANGED <<probe, scope, env, client, JOBS, h, g, submitted, writes>>

\* lines 28-37: a fresh id, and the job in state processing
Submit(body) ==
    /\ IsValidBody(body)
    /\ Len(JOBS) < SubmitLimit(scope)
    /\ LET job_id == Len(JOBS) + 1
           payload == GenerateRequest(body)
       IN  /\ JOBS' = Append(JOBS, NewJob(payload))
           /\ h' = [h EXCEPT ![job_id] = [Idle EXCEPT !.pc = "retrieve", !.payload = payload]]
           /\ submitted' = Append(submitted, body)
    /\ UNCHANGED <<probe, scope, env, client, g, writes, rejected>>

\* line 42
Retrieve(j) ==
    /\ h[j].pc = "retrieve"
    /\ \E query \in {"failed", "matches"} :
          h' = [h EXCEPT ![j].brand_context =
                              rag_retrieve(model_dump(h[j].payload), env, query),
                         ![j].call =
                              [fn |-> "rag_retrieve",
                               embedding |-> IF env.pinecone /\ env.openai
                                             THEN get_embedding(<<h[j].payload.title, " ",
                                                                  h[j].payload.brief>>)
                                             ELSE "not run",
                               query |-> IF env.pinecone /\ env.openai
                                         THEN query ELSE "not run"],
                         ![j].log = Append(@, [stage |-> "rag_retrieve"]),
                         ![j].pc = "promptify"]
    /\ UNCHANGED <<probe, scope, env, client, JOBS, g, submitted, writes, rejected>>

\* lines 45-51, and the loop test of line 53
Promptify(j) ==
    /\ h[j].pc = "promptify"
    /\ h' = [h EXCEPT ![j].prompt =
                          promptify(EnhancedPayload(h[j].payload, h[j].brand_context)),
                      ![j].i = 1,
                      ![j].call = NoCall,
                      ![j].log = Append(@, [stage |-> "promptify"]),
                      ![j].pc = IF h[j].payload.channels = <<>> THEN "score" ELSE "text"]
    /\ UNCHANGED <<probe, scope, env, client, JOBS, g, submitted, writes, rejected>>

\* lines 55-56: an exception leaves the try block for the except clause
GenerateText(j) ==
    /\ h[j].pc = "text"
    /\ \E reply \in TextReplies, var_replies \in VariationReplies :
          LET l == h[j]
              channel_data ==
                  ChannelData(l.payload.channels[l.i],
                              EnhancedPayload(l.payload, l.brand_context))
              r == generate_text(channel_data, env, reply, var_replies)
              called == [fn |-> "generate_text", channel |-> l.payload.channels[l.i],
                         raised |-> r.raised,
                         response |-> IF r.raised THEN NoneResp
                                      ELSE call_openai_api(env, reply),
                         variation_responses |->
                            IF /\ ~r.raised
                               /\ call_openai_api(env, reply).kind = "ok"
                               /\ channel_data["generate_variations"]
                            THEN [k \in 1..2 |-> call_openai_api(env, var_replies[k])]
                            ELSE <<>>]
              entry == [stage |-> "generate_text", channel |-> l.payload.channels[l.i],
                        raised |-> r.raised]
          IN  h' = [h EXCEPT ![j] =
                      IF r.raised
                      THEN [l EXCEPT !.pc = "except", !.error = r.error, !.call = called,
                                     !.log = Append(@, entry)]
                      ELSE [l EXCEPT !.pc = "image", !.text_result = r.value,
                                     !.call = called, !.log = Append(@, entry)]]
    /\ UNCHANGED <<probe, scope, env, client, JOBS, g, submitted, writes, rejected>>

\* lines 59-78, and the loop test of line 53
GenerateImage(j) ==
    /\ h[j].pc = "image"
    /\ \E reply \in ImageReplies, stored \in BOOLEAN :
          LET l == h[j]
              ch == l.payload.channels[l.i]
              channel_data == ChannelData(ch, EnhancedPayload(l.payload, l.brand_context))
              image_result == generate_image(channel_data, env, reply, stored)
              response == call_dalle_api(env, reply)
              called == [fn |-> "generate_image", channel |-> ch,
                         response |-> response,
                         storage |-> IF env.s3 /\ response.kind = "ok"
                                     THEN (IF stored THEN "stored" ELSE "failed")
                                     ELSE "not run",
                         url |-> image_result]
          IN  h' = [h EXCEPT ![j] =
                      [l EXCEPT
                         !.call = called,
                         !.log = Append(@, [stage |-> "generate_image", channel |-> ch]),
                         !.multimodal_copies = list_append(@, CopyEntry(ch, l.text_result)),
                         !.images = list_append(@, image_result),
                         !.performance_predictions =
                             list_append(@, PredictionEntry(ch, l.text_result)),
                         !.text_result = NoneVal,
                         !.i = l.i + 1,
                         !.pc = IF l.i < Len(l.payload.channels) THEN "text" ELSE "score"]]
    /\ UNCHANGED <<probe, scope, env, client, JOBS, g, submitted, writes, rejected>>

\* mutant: the scorer is handed the images without the copies
ScoreWithoutCopies(j) ==
    /\ h[j].pc = "score"
    /\ \E created \in BOOLEAN :
          LET l == h[j]
              openai_client == get_openai_client(client, env, created)
              content == [copies |-> <<>>, images |-> l.images]
          IN  /\ client' = openai_client
              /\ h' = [h EXCEPT ![j].score_result = score_content(content, openai_client),
                                ![j].call = NoCall,
                                ![j].log = Append(@, [stage |-> "score_content",
                                                      content |-> content]),
                                ![j].pc = "complete"]
    /\ UNCHANGED <<probe, scope, env, JOBS, g, submitted, writes, rejected>>

\* lines 81-84
Score(j) ==
    /\ h[j].pc = "score"
    /\ \E created \in BOOLEAN :
          LET l == h[j]
              openai_client == get_openai_client(client, env, created)
              content ==
                  [copies |-> [k \in DOMAIN l.multimodal_copies |->
                                   l.multimodal_copies[k].primary],
                   images |-> l.images]
          IN  /\ client' = openai_client
              /\ h' = [h EXCEPT ![j].score_result = score_content(content, openai_client),
                                ![j].call = NoCall,
                                ![j].log = Append(@, [stage |-> "score_content",
                                                      content |-> content]),
                                ![j].pc = "complete"]
    /\ UNCHANGED <<probe, scope, env, JOBS, g, submitted, writes, rejected>>

\* mutant: the result carries the number of the job
CompleteNumbered(j) ==
    /\ h[j].pc = "complete"
    /\ JOBS' = [JOBS EXCEPT ![j] =
                   CompletedJob(@, AssembleResult(h[j]) @@ [job_number |-> j])]
    /\ writes' = [writes EXCEPT ![j] = @ + 1]
    /\ h' = [h EXCEPT ![j] =
                [Idle EXCEPT !.pc = "respond",
                             !.log = Append(h[j].log, [stage |-> "write",
                                                       status |-> "completed"])]]
    /\ UNCHANGED <<probe, scope, env, client, g, submitted, rejected>>

\* mutant: the update goes to the first job of the store
CompleteFirst(j) ==
    /\ h[j].pc = "complete"
    /\ JOBS' = [JOBS EXCEPT ![1] = CompletedJob(@, AssembleResult(h[j]))]
    /\ writes' = [writes EXCEPT ![j] = @ + 1]
    /\ h' = [h EXCEPT ![j] =
                [Idle EXCEPT !.pc = "respond",
                             !.log = Append(h[j].log, [stage |-> "write",
                                                       status |-> "completed"])]]
    /\ UNCHANGED <<probe, scope, env, client, g, submitted, rejected>>

\* lines 87-108
Complete(j) ==
    /\ h[j].pc = "complete"
    /\ JOBS' = [JOBS EXCEPT ![j] = CompletedJob(@, AssembleResult(h[j]))]
    /\ writes' = [writes EXCEPT ![j] = @ + 1]
    /\ h' = [h EXCEPT ![j] =
                [Idle EXCEPT !.pc = "respond",
                             !.log = Append(h[j].log, [stage |-> "write",
                                                       status |-> "completed"])]]
    /\ UNCHANGED <<probe, scope, env, client, g, submitted, rejected>>

\* mutant: the except clause writes the failure and the pipeline goes on to
\* the scorer
FailAndGoOn(j) ==
    /\ h[j].pc = "except"
    /\ JOBS' = [JOBS EXCEPT ![j] = FailedJob(@, h[j].error)]
    /\ writes' = [writes EXCEPT ![j] = @ + 1]
    /\ h' = [h EXCEPT ![j].pc = "score",
                      ![j].log = Append(@, [stage |-> "write", status |-> "failed"])]
    /\ UNCHANGED <<probe, scope, env, client, g, submitted, rejected>>

\* lines 110-115 (error, the str(e) of the exception caught, is kept as history)
Fail(j) ==
    /\ h[j].pc = "except"
    /\ JOBS' = [JOBS EXCEPT ![j] = FailedJob(@, h[j].error)]
    /\ writes' = [writes EXCEPT ![j] = @ + 1]
    /\ h' = [h EXCEPT ![j] =
                [Idle EXCEPT !.pc = "respond", !.error = h[j].error,
                             !.log = Append(h[j].log, [stage |-> "write",
                                                       status |-> "failed"])]]
    /\ UNCHANGED <<probe, scope, env, client, g, submitted, rejected>>

\* lines 117-118
Respond(j) ==
    /\ h[j].pc = "respond"
    /\ LET job == JOBS[j]
       IN  h' = [h EXCEPT ![j].response =
                              JobStatusResponse(j, job.status, job.progress, job.result),
                          ![j].pc = "returned"]
    /\ UNCHANGED <<probe, scope, env, client, JOBS, g, submitted, writes, rejected>>

Step(j) ==
    \/ Retrieve(j)
    \/ Promptify(j)
    \/ GenerateText(j)
    \/ GenerateImage(j)
    \/ Score(j)
    \/ Complete(j)
    \/ Fail(j)
    \/ Respond(j)

\* ------------------------------------------- GET /jobs/{job_id}
\* mutant: a failed job is reported as missing
FoundUnlessFailed(job_id) == job_id \in DOMAIN JOBS /\ JOBS[job_id].status # "failed"

\* `job = JOBS.get(job_id)` passes `if not job` (a job dict is never empty)
Found(job_id) == job_id \in DOMAIN JOBS

\* lines 123-125 and the first argument read of line 126.  The job dict is
\* shared with the writer, so the three reads of line 126 are three steps.
GetLookup(job_id) ==
    /\ g.pc \in {"idle", "done"}
    /\ g' = IF Found(job_id)
            THEN [GetIdle EXCEPT !.pc = "progress", !.job_id = job_id,
                                 !.status = JOBS[job_id].status,
                                 !.terminal_at_start = Terminal(JOBS[job_id].status)]
            ELSE [GetIdle EXCEPT !.pc = "done", !.job_id = job_id, !.response = NotFound]
    /\ UNCHANGED <<probe, scope, env, client, JOBS, h, submitted, writes, rejected>>

\* the second argument read of line 126
GetReadProgress ==
    /\ g.pc = "progress"
    /\ g' = [g EXCEPT !.progress = JOBS[g.job_id].progress, !.pc = "result"]
    /\ UNCHANGED <<probe, scope, env, client, JOBS, h, submitted, writes, rejected>>

\* mutant: job.pop("result") in place of job.get("result")
GetReturnPopsResult ==
    /\ g.pc = "result"
    /\ g' = [g EXCEPT !.result = JOBS[g.job_id].result,
                      !.response = JobStatusResponse(g.job_id, g.status, g.progress,
                                                     JOBS[g.job_id].result),
                      !.pc = "done"]
    /\ JOBS' = [JOBS EXCEPT ![g.job_id].result = NoneVal]
    /\ UNCHANGED <<probe, scope, env, client, h, submitted, writes, rejected>>

\* the third argument read of line 126, and the return
GetReturn ==
    /\ g.pc = "result"
    /\ g' = [g EXCEPT !.result = JOBS[g.job_id].result,
                      !.response = JobStatusResponse(g.job_id, g.status, g.progress,
                                                     JOBS[g.job_id].result),
                      !.pc = "done"]
    /\ UNCHANGED <<probe, scope, env, client, JOBS, h, submitted, writes, rejected>>

Next ==
    \/ \E body \in BodiesFor(scope, env) : Reject(body)
    \/ \E body \in BodiesFor(scope, env) : Submit(body)
    \/ \E j \in JobIds : Step(j)
    \/ \E job_id \in QueryIds : GetLookup(job_id)
    \/ GetReadProgress
    \/ GetReturn

Spec == Init /\ [][Next]_vars

\* Every call that has started runs on: the handlers are synchronous code
\* whose external calls are bounded by timeouts.
FairSpec == Spec /\ \A j \in JobIds : WF_vars(Step(j))

\* ------------------------------- score_content called on its own
\* A URL that names placehold.co.
PlaceholdCoUrl == [host |-> "placehold.co", path |-> <<"600x400">>]

CopyLists == {[i \in 1..n |-> <<"copy">>] : n \in 0..MaxCopies}

\* Lists of images of one kind: the average of a mixed list can fall on a
\* tie of round(), which binary floating point decides and hundredths do not.
ImageLists ==
    {[i \in 1..n |-> url] :
        n \in 0..MaxImages,
        url \in {PlaceholdCoUrl, get_placeholder_image("email", "Summer Sale")}}

ScoreInputs == {[copies |-> c, images |-> i] : c \in CopyLists, i \in ImageLists}

\* What the scoring model would answer to an evaluation prompt.
ScoreReplies ==
    {"0.9", "5", "-1", "clarity: 2, compelling: 2",
     "clarity: 0.9, compelling: 0.9, cta: 0.9, length: 0.9, tone: 0.9"}

FunctionsInit ==
    /\ scope = "functions"
    /\ env \in Envs
    /\ client = "None"
    /\ JOBS = <<>>
    /\ h = [j \in JobIds |-> Idle]
    /\ g = GetIdle
    /\ submitted = <<>>
    /\ writes = [j \in JobIds |-> 0]
    /\ rejected = 0
    /\ probe = NoCall

\* score_content(content), the scoring model answering reply to whatever it
\* is asked
CallScoreContent(content, reply) ==
    /\ probe = NoCall
    /\ \E created \in BOOLEAN :
          LET openai_client == get_openai_client(client, env, created)
          IN  /\ client' = openai_client
              /\ probe' = [fn |-> "score_content", content |-> content,
                           client |-> openai_client, reply |-> reply,
                           out |-> score_content(content, openai_client)]
    /\ UNCHANGED <<scope, env, JOBS, h, g, submitted, writes, rejected>>

\* Values of any type in the lists of a content dict: a string, or a value
\* that is not one (an int: len() of it raises TypeError, and so does
\* `"placehold.co" not in` it, since it is truthy).
Str(value) == [cls |-> "str", value |-> value]

NotAString == [cls |-> "int"]

\* the content with its strings taken as score_content's other callers pass them
StrContent(content) ==
    [copies |-> [i \in DOMAIN content.copies |-> content.copies[i].value],
     images |-> [i \in DOMAIN content.images |-> content.images[i].value]]

\* score_content on lists that may hold a value that is not a string.
\* len(copy) is taken at line 42 without a client, at line 86 in the try and
\* again at line 104 in the except clause, so a copy without a length raises
\* out of the function in either mode; an image that is not a string raises
\* at line 159, inside the try, and the except clause returns the basic
\* report with the error.
score_content_outcome(content, openai_client) ==
    LET copies == content.copies
        images == content.images
    IN  IF \E i \in DOMAIN copies : copies[i] = NotAString
        THEN Raise("object of type 'int' has no len()")
        ELSE IF openai_client # "None" /\ \E i \in DOMAIN images : images[i] = NotAString
        THEN Return([overall_score |-> HeuristicOverall(Len(copies), Len(images)),
                     copy_score |-> 70,
                     image_score |-> 60,
                     brand_consistency |-> 80,
                     engagement_potential |-> 70,
                     metrics |-> [total_copies |-> Len(copies),
                                  total_images |-> Len(images)],
                     error |-> "argument of type 'int' is not iterable"])
        ELSE IF openai_client = "None"
        THEN Return([overall_score |-> HeuristicOverall(Len(copies), Len(images)),
                     copy_score |-> 70,
                     image_score |-> 60,
                     brand_consistency |-> 80,
                     engagement_potential |-> 70,
                     metrics |-> [total_copies |-> Len(copies),
                                  total_images |-> Len(images)]])
        ELSE Return(score_content(StrContent(content), openai_client))

AnyScoreInputs ==
    {[copies |-> c, images |-> i] :
        c \in {<<>>, <<Str(<<"copy">>)>>, <<NotAString>>, <<Str(<<"copy">>), NotAString>>},
        i \in {<<>>, <<Str(PlaceholdCoUrl)>>, <<NotAString>>,
               <<Str(PlaceholdCoUrl), NotAString>>}}

\* score_content(content) on lists of any values
CallScoreContentAny(content) ==
    /\ probe = NoCall
    /\ \E created \in BOOLEAN :
          LET openai_client == get_openai_client(client, env, created)
          IN  /\ client' = openai_client
              /\ probe' = [fn |-> "score_content_any", content |-> content,
                           client |-> openai_client,
                           outcome |-> score_content_outcome(content, openai_client)]
    /\ UNCHANGED <<scope, env, JOBS, h, g, submitted, writes, rejected>>

\* The prompt of the except clause, returned when template.render raises.
promptify_fallback(input_data) ==
    LET title == Get(input_data, "title", "Untitled")
        brief == Get(input_data, "brief", "")
        channel == Get(input_data, "channel", "general")
    IN  <<"Create marketing content for ", channel, ": ", title, " - ", brief>>

PromptChannels == {"email", "instagram", "facebook", "twitter", "linkedin", "general"}

\* dicts with and without a channel, a title and a brand context
PromptInputs ==
    LET base == [brief |-> "Big discounts", brand_profile_id |-> "brand-123"]
        titles == {<<>>, [title |-> "Summer Sale"]}
        contexts == {<<>>, [brand_context |-> "context"]}
    IN  {base @@ t @@ c : t \in titles, c \in contexts}
        \cup {base @@ t @@ c @@ [channel |-> ch] :
                 t \in titles, c \in contexts, ch \in PromptChannels}

\* promptify(input_data); renders: template.render returns
CallPromptify(input_data, renders) ==
    /\ probe = NoCall
    /\ probe' = [fn |-> "promptify", input_data |-> input_data, renders |-> renders,
                 out |-> IF renders THEN promptify(input_data)
                         ELSE promptify_fallback(input_data)]
    /\ UNCHANGED <<scope, env, client, JOBS, h, g, submitted, writes, rejected>>

\* the caller has the value; the module keeps its client
FunctionReturns ==
    /\ probe # NoCall
    /\ probe' = NoCall
    /\ UNCHANGED <<scope, env, client, JOBS, h, g, submitted, writes, rejected>>

FunctionsNext ==
    \/ \E content \in ScoreInputs, reply \in ScoreReplies : CallScoreContent(content, reply)
    \/ \E content \in AnyScoreInputs : CallScoreContentAny(content)
    \/ \E input_data \in PromptInputs, renders \in BOOLEAN : CallPromptify(input_data, renders)
    \/ FunctionReturns

FunctionsSpec == FunctionsInit /\ [][FunctionsNext]_vars

\* ==================================================== properties
Request(j) == GenerateRequest(submitted[j])

Finished(j) == j \in DOMAIN JOBS /\ h[j].pc = "returned"

\* The request of the tests: title, brief, brand_profile_id and a non-empty
\* channel list, no descriptors.
IsTestRequest(body) == DOMAIN body = TestKeys /\ body["channels"] # <<>>

IsPlaceholderUrl(url, channel, title) ==
    /\ url.host = "via.placeholder.com"
    /\ url.path = <<"600x400/3b82f6/ffffff?text=", TitleCase(channel), ": ", title>>

IsTemplatedCopy(text, channel, title, brief) ==
    /\ text # <<>>
    /\ text = <<"Generated copy for ", channel, ": ", title, " - ", brief, MockNote>>

IsHeuristicReport(score, n_copies, n_images) ==
    /\ score.overall_score = Min(100, 50 + 5 * n_copies + 2 * n_images)
    /\ score.copy_score = 70
    /\ score.image_score = 60
    /\ score.brand_consistency = 80
    /\ score.engagement_potential = 70

\* C1: a submit of the tests' request (title, brief, brand_profile_id and a
\* non-empty channel list, no audience_target, no brand_assets) ends with
\* status completed and a result with one copy and one image per channel.
C1_TestRequestCompletes ==
    \A j \in DOMAIN JOBS :
        (IsTestRequest(submitted[j]) /\ Finished(j)) =>
            /\ JOBS[j].status = "completed"
            /\ "error" \notin DOMAIN JOBS[j].result
            /\ Len(JOBS[j].result.multimodal_copies) = Len(submitted[j]["channels"])
            /\ Len(JOBS[j].result.images) = Len(submitted[j]["channels"])

\* C2: without credentials every submitted request ends completed, with a
\* templated fallback copy and a placeholder image URL per channel and a
\* heuristic score report; it never ends failed.
C2_NoCredentialsCompletes ==
    NoCredentials(env) =>
        \A j \in DOMAIN JOBS :
            Finished(j) =>
                /\ JOBS[j].status = "completed"
                /\ LET r == JOBS[j].result
                       req == Request(j)
                   IN  /\ Len(r.multimodal_copies) = Len(req.channels)
                       /\ Len(r.images) = Len(req.channels)
                       /\ \A i \in DOMAIN req.channels :
                             /\ IsTemplatedCopy(r.multimodal_copies[i].primary,
                                                req.channels[i], req.title, req.brief)
                             /\ IsPlaceholderUrl(r.images[i], req.channels[i], req.title)
                       /\ IsHeuristicReport(r.meta.score, Len(req.channels),
                                            Len(req.channels))

SummerSaleBody ==
    [title |-> "Summer Sale", brief |-> "50% off", brand_profile_id |-> "demo",
     channels |-> <<"email", "instagram">>]

\* C3: without credentials the Summer Sale request for email and instagram
\* ends completed with progress 100, two copies, two images and an overall
\* score of 0.59.
C3_SummerSaleScenario ==
    NoCredentials(env) =>
        \A j \in DOMAIN JOBS :
            (submitted[j] = SummerSaleBody /\ Finished(j)) =>
                /\ JOBS[j].status = "completed"
                /\ JOBS[j].progress = 100
                /\ Len(JOBS[j].result.multimodal_copies) = 2
                /\ Len(JOBS[j].result.images) = 2
                /\ JOBS[j].result.meta.score.overall_score = 59

\* The channel a URL was generated for, read off the URL.
ImageIsFor(url, channel) ==
    CASE url.host = "via.placeholder.com" -> url.path[2] = TitleCase(channel)
      [] url.host = "provider" -> url.path[1] = channel
      [] url.host = "s3.amazonaws.com" -> url.path[2] = channel
      [] OTHER -> FALSE

\* C4: a completed job's multimodal_copies, images and performance_predictions
\* each have one entry per requested channel, the i-th entry being that of the
\* i-th channel of the request.
C4_PerChannelLists ==
    \A j \in DOMAIN JOBS :
        JOBS[j].status = "completed" =>
            LET r == JOBS[j].result
                chs == Get(submitted[j], "channels", <<>>)
            IN  /\ Len(r.multimodal_copies) = Len(chs)
                /\ Len(r.images) = Len(chs)
                /\ Len(r.performance_predictions) = Len(chs)
                /\ \A i \in DOMAIN chs :
                      /\ r.multimodal_copies[i].channel = chs[i]
                      /\ r.performance_predictions[i].channel = chs[i]
                      /\ ImageIsFor(r.images[i], chs[i])

\* a completed job whose two channels differ, one of them unrecognized
C4_Witness ==
    \E j \in DOMAIN JOBS :
        /\ JOBS[j].status = "completed"
        /\ Get(submitted[j], "channels", <<>>) = <<"linkedin", "email">>

\* What a job looks like in each status.
Statuses == {"processing", "completed", "failed"}

\* C5: a job is created processing with progress 0; its status is written to
\* completed or failed (with progress 100) once, by the time its submit has
\* returned; a terminal job never changes again.
C5_TerminalWrittenOnce ==
    /\ [](\A j \in DOMAIN JOBS :
             /\ writes[j] <= 1
             /\ Terminal(JOBS[j].status) <=> writes[j] = 1
             /\ h[j].pc = "returned" => writes[j] = 1)
    /\ [][/\ \A j \in DOMAIN JOBS' \ DOMAIN JOBS :
                JOBS'[j].status = "processing" /\ JOBS'[j].progress = 0
          /\ \A j \in DOMAIN JOBS :
                /\ Terminal(JOBS[j].status) => JOBS'[j] = JOBS[j]
                /\ JOBS'[j].status # JOBS[j].status =>
                      /\ JOBS[j].status = "processing"
                      /\ Terminal(JOBS'[j].status)
                      /\ JOBS'[j].progress = 100]_vars

\* a failed job and a completed job, both written once, their submits returned
C5_Witness ==
    \E j, k \in DOMAIN JOBS :
        /\ JOBS[j].status = "failed" /\ JOBS[k].status = "completed"
        /\ writes[j] = 1 /\ writes[k] = 1
        /\ h[j].pc = "returned" /\ h[k].pc = "returned"

\* C6: every submit that was accepted returns, whatever the external
\* capabilities answer; the job it returns is terminal with progress 100 and
\* a result; and the progress of a job never decreases.
C6_SubmitReturnsTerminal ==
    /\ \A j \in JobIds : (h[j].pc # "idle") ~> (h[j].pc = "returned")
    /\ [](\A j \in JobIds :
             h[j].pc = "returned" =>
                /\ Terminal(h[j].response.status)
                /\ h[j].response.progress = 100
                /\ h[j].response.result # NoneVal)
    /\ [][\A j \in DOMAIN JOBS : JOBS'[j].progress >= JOBS[j].progress]_vars

\* a submit that returned a failed job, with an OpenAI key configured
C6_Witness ==
    \E j \in JobIds :
        /\ h[j].pc = "returned"
        /\ h[j].response.status = "failed"
        /\ env.openai

\* C7: when a stage has raised, the job ends failed with progress 100 and a
\* result that holds the error description and nothing else.
C7_FailureKeepsOnlyError ==
    \A j \in DOMAIN JOBS :
        (h[j].error # "" /\ h[j].pc \in {"respond", "returned"}) =>
            /\ JOBS[j].status = "failed"
            /\ JOBS[j].progress = 100
            /\ JOBS[j].result = [error |-> h[j].error]

\* generate_text has raised for a request of two channels, and the job is stored
C7_Witness ==
    \E j \in DOMAIN JOBS :
        /\ h[j].error = NoneGetError
        /\ h[j].pc = "returned"
        /\ Len(JOBS[j].input.channels) = 2
        /\ JOBS[j].status = "failed"

\* Every key the body gave is stored with the value given, omitted keys hold
\* the defaults of the schema, and no key of the pipeline is added.
InputIsRequest(input, body) ==
    /\ DOMAIN input = {"title", "brief", "brand_profile_id", "channels",
                       "audience_target", "brand_assets", "generate_variations",
                       "content_length", "include_emoji"}
    /\ \A k \in {"title", "brief", "brand_profile_id", "channels",
                 "generate_variations"} :
          k \in DOMAIN body => input[k] = body[k]
    /\ \A k \in {"audience_target", "brand_assets"} :
          IF k \in DOMAIN body
          THEN \A f \in DOMAIN body[k] : input[k][f] = body[k][f]
          ELSE input[k] = NoneVal
    /\ "brand_profile_id" \notin DOMAIN body => input["brand_profile_id"] = "demo"
    /\ "channels" \notin DOMAIN body => input["channels"] = <<>>
    /\ "generate_variations" \notin DOMAIN body => input["generate_variations"] = TRUE
    /\ input["content_length"] = "medium"
    /\ input["include_emoji"] = FALSE

\* C8: every stored job has a status among processing, completed, failed;
\* progress 0 and a null result exactly when processing, progress 100 and a
\* result exactly when terminal; and its input is the request submitted.
C8_JobShape ==
    \A j \in DOMAIN JOBS :
        /\ JOBS[j].status \in Statuses
        /\ JOBS[j].status = "processing" <=>
              (JOBS[j].progress = 0 /\ JOBS[j].result = NoneVal)
        /\ Terminal(JOBS[j].status) <=>
              (JOBS[j].progress = 100 /\ JOBS[j].result # NoneVal)
        /\ InputIsRequest(JOBS[j].input, submitted[j])

\* a completed job of one channel beside a job still processing
C8_Witness ==
    \E j, k \in DOMAIN JOBS :
        /\ JOBS[j].status = "completed"
        /\ Len(JOBS[j].input.channels) = 1
        /\ JOBS[k].status = "processing"

\* C9: a get answers 404 exactly when no submit has allocated the id; for an
\* allocated id, a failed job included, it answers the job with a status.
C9_NotFoundIffNeverAllocated ==
    [][(g' # g /\ g'.pc = "done") =>
          /\ g'.response = NotFound <=> g'.job_id \notin DOMAIN JOBS
          /\ g'.job_id \in DOMAIN JOBS =>
                /\ g'.response.code = 200
                /\ g'.response.job_id = g'.job_id
                /\ g'.response.status \in Statuses]_vars

\* a get has answered a failed job
C9_Witness ==
    /\ g.pc = "done"
    /\ g.job_id \in DOMAIN JOBS
    /\ g.response.code = 200
    /\ g.response.status = "failed"

\* C10: a get changes no stored job, and a get of a job that is terminal
\* answers the stored status, progress and result, which no later step
\* changes, whatever other submits run meanwhile.
C10_GetIsReadOnly ==
    /\ [](g.pc = "done" /\ g.terminal_at_start =>
             g.response = [code |-> 200, job_id |-> g.job_id,
                           status |-> JOBS[g.job_id].status,
                           progress |-> JOBS[g.job_id].progress,
                           result |-> JOBS[g.job_id].result])
    /\ [][g' # g => JOBS' = JOBS]_vars
    /\ [][\A j \in DOMAIN JOBS :
             Terminal(JOBS[j].status) =>
                /\ JOBS'[j].status = JOBS[j].status
                /\ JOBS'[j].progress = JOBS[j].progress
                /\ JOBS'[j].result = JOBS[j].result]_vars

\* a get has answered a completed job while the submit of another job runs
C10_Witness ==
    /\ g.pc = "done"
    /\ g.terminal_at_start
    /\ g.response.status = "completed"
    /\ \E k \in DOMAIN JOBS : k # g.job_id /\ JOBS[k].status = "processing"

\* A channel identifier that has no template of its own.
IsUnrecognized(channel) == channel \notin {"email", "instagram", "facebook", "twitter"}

\* C11: a request that names a channel outside email, instagram, facebook,
\* twitter does not fail: its job ends completed, and the unrecognized
\* channel has its copy, its image and its prediction in the result.
C11_UnknownChannelCompletes ==
    \A j \in DOMAIN JOBS :
        LET chs == Request(j).channels
        IN  (Finished(j) /\ \E i \in DOMAIN chs : IsUnrecognized(chs[i])) =>
                /\ JOBS[j].status = "completed"
                /\ \A i \in DOMAIN chs :
                      IsUnrecognized(chs[i]) =>
                         /\ JOBS[j].result.multimodal_copies[i].channel = chs[i]
                         /\ JOBS[j].result.multimodal_copies[i].primary # <<>>
                         /\ ImageIsFor(JOBS[j].result.images[i], chs[i])

\* C12: generate_text never raises to generate(), and when the text model is
\* unavailable or answers without choices the primary copy it returns is the
\* templated copy with the fallback note.
C12_GenerateTextNeverRaises ==
    \A j \in JobIds :
        h[j].call.fn = "generate_text" =>
            /\ ~h[j].call.raised
            /\ h[j].error = ""
            /\ ~HasChoices(h[j].call.response) =>
                  IsTemplatedCopy(h[j].text_result.primary, h[j].call.channel,
                                  h[j].payload.title, h[j].payload.brief)

\* The image provider gave nothing to use: no key, no reply, a reply without
\* data, or a reply whose data cannot be read.
ImageUnavailable(response) == ~env.openai \/ response.kind \in {"None", "no_list", "malformed"}

\* C13: generate_image never raises (the step after it is never the except
\* clause), and without a key or with an unavailable, non-success or
\* malformed reply it returns the placeholder URL of the channel and the
\* title, which is the URL stored for the channel.
C13_ImageFallsBackToPlaceholder ==
    /\ [](\A j \in JobIds :
             h[j].call.fn = "generate_image" =>
                /\ h[j].error = ""
                /\ ImageUnavailable(h[j].call.response) =>
                      /\ IsPlaceholderUrl(h[j].call.url, h[j].call.channel,
                                          JOBS[j].input.title)
                      /\ h[j].images[Len(h[j].images)] = h[j].call.url)
    /\ [][\A j \in JobIds :
             h[j].pc = "image" => h'[j].pc \in {"image", "text", "score"}]_vars

\* with a key, the provider answered a body that cannot be read, and the
\* placeholder was returned
C13_Witness ==
    \E j \in JobIds :
        /\ h[j].call.fn = "generate_image"
        /\ env.openai
        /\ h[j].call.response.kind = "malformed"
        /\ h[j].call.url.host = "via.placeholder.com"

\* C14: when the provider answered an image and the copy to object storage
\* failed, generate_image returns the placeholder URL of the channel and title.
C14_StorageFailureGivesPlaceholder ==
    \A j \in JobIds :
        (h[j].call.fn = "generate_image" /\ h[j].call.storage = "failed") =>
            IsPlaceholderUrl(h[j].call.url, h[j].call.channel, JOBS[j].input.title)

\* The context holds the static profile and the campaign, no retrieved passage.
IsStaticContext(brand_context, request) ==
    /\ brand_context.section = "Campaign Context"
    /\ brand_context.title = request.title
    /\ brand_context.brief = request.brief

\* C15: rag_retrieve never raises; the profile of its context is that of the
\* brand_profile_id, or demo when the id is unknown; and when the index or the
\* embedding is unavailable or the query fails, the context is the static one.
C15_RetrieveDegradesToStatic ==
    \A j \in JobIds :
        h[j].call.fn = "rag_retrieve" =>
            /\ h[j].error = ""
            /\ h[j].brand_context.profile =
                  (IF h[j].payload.brand_profile_id \in {"demo", "tech_startup", "fashion_brand"}
                   THEN h[j].payload.brand_profile_id ELSE "demo")
            /\ (\/ ~env.pinecone
                \/ ~env.openai
                \/ h[j].call.embedding = "zero vector"
                \/ h[j].call.query = "failed")
                  => IsStaticContext(h[j].brand_context, h[j].payload)

\* C16: the overall_score of score_content is between 0 and 1, with or
\* without a client, for every number of copies and images from zero up and
\* whatever the scoring model answers.
C16_OverallScoreInRange ==
    probe.fn = "score_content" =>
        /\ 0 <= probe.out.overall_score
        /\ probe.out.overall_score <= 100

\* without a client, enough copies and images for the sum to pass 1.0
C16_Witness ==
    /\ probe.fn = "score_content"
    /\ probe.client = "None"
    /\ 50 + 5 * Len(probe.content.copies) + 2 * Len(probe.content.images) > 100
    /\ probe.out.overall_score = 100

\* C17: without a client the overall_score is 0.5 + 0.05 per copy + 0.02 per
\* image, at most 1.0, with copy_score 0.7, image_score 0.6, brand_consistency
\* 0.8 and engagement_potential 0.7; for 3 copies and 2 images it is 0.69.
C17_HeuristicFormula ==
    (probe.fn = "score_content" /\ probe.client = "None") =>
        LET n_copies == Len(probe.content.copies)
            n_images == Len(probe.content.images)
            sum == 50 + 5 * n_copies + 2 * n_images
        IN  /\ probe.out.overall_score = (IF sum < 100 THEN sum ELSE 100)
            /\ probe.out.copy_score = 70
            /\ probe.out.image_score = 60
            /\ probe.out.brand_consistency = 80
            /\ probe.out.engagement_potential = 70
            /\ (n_copies = 3 /\ n_images = 2) => probe.out.overall_score = 69

\* 3 copies and 2 images scored without a client
C17_Witness ==
    /\ probe.fn = "score_content"
    /\ probe.client = "None"
    /\ Len(probe.content.copies) = 3
    /\ Len(probe.content.images) = 2
    /\ probe.out.overall_score = 69

\* C18: a get that runs while the submit of its job runs answers either the
\* processing snapshot (progress 0, null result) or the terminal one (a
\* terminal status, progress 100, the result), never a mixture of the two;
\* and a job is written once, by the submit that created it.
C18_GetSeesWholeSnapshot ==
    /\ (g.pc = "done" /\ g.response.code = 200) =>
          \/ /\ g.response.status = "processing"
             /\ g.response.progress = 0
             /\ g.response.result = NoneVal
          \/ /\ Terminal(g.response.status)
             /\ g.response.progress = 100
             /\ g.response.result # NoneVal
             /\ g.response.result = JOBS[g.job_id].result
    /\ \A j \in DOMAIN JOBS : writes[j] <= 1

\* C19: a submit whose body lacks title or brief is answered with a client
\* error before the pipeline starts: it creates no job and leaves the job
\* store, and every handler, as they were; so every stored job comes from a
\* body that has both fields.
C19_InvalidBodyCreatesNoJob ==
    /\ [](/\ Len(submitted) = Len(JOBS)
          /\ \A j \in DOMAIN JOBS : {"title", "brief"} \subseteq DOMAIN submitted[j])
    /\ [][rejected' # rejected =>
             /\ JOBS' = JOBS
             /\ h' = h
             /\ submitted' = submitted
             /\ writes' = writes]_vars

\* a body was rejected, and the only job is that of an accepted body
C19_Witness ==
    /\ rejected > 0
    /\ Len(JOBS) = 1
    /\ {"title", "brief"} \subseteq DOMAIN submitted[1]

\* The template family the composer has for a channel.
TemplateFamily(channel) ==
    CASE channel = "email" -> "email"
      [] channel \in {"instagram", "facebook", "twitter"} -> "social_media"
      [] OTHER -> "default"

\* C20: the prompt is composed for each requested channel, with that channel:
\* the prompt a completed job reports was rendered from the template family
\* of each channel of the request (email for email, social media for
\* instagram, facebook and twitter) and names that channel.
C20_ComposerRunsPerChannel ==
    \A j \in DOMAIN JOBS :
        JOBS[j].status = "completed" =>
            \A i \in DOMAIN JOBS[j].input.channels :
                LET channel == JOBS[j].input.channels[i]
                    prompt_used == JOBS[j].result.meta.prompt_used
                IN  ~IsUnrecognized(channel) =>
                       /\ prompt_used.template = TemplateFamily(channel)
                       /\ prompt_used.template = "social_media" =>
                             prompt_used.channel = channel

\* What a log entry says of the order of the stages: the stage and, for a
\* generation, its channel.
Shape(entry) ==
    <<entry.stage,
      IF entry.stage \in {"generate_text", "generate_image"} THEN entry.channel ELSE "">>

\* The stages of a run that completes, for the channels of its request.
RECURSIVE ChannelShapes(_)
ChannelShapes(chs) ==
    IF chs = <<>> THEN <<>>
    ELSE <<<<"generate_text", Head(chs)>>, <<"generate_image", Head(chs)>>>>
         \o ChannelShapes(Tail(chs))

ExpectedShapes(chs) ==
    <<<<"rag_retrieve", "">>, <<"promptify", "">>>> \o ChannelShapes(chs)
    \o <<<<"score_content", "">>, <<"write", "">>>>

\* C21: in the run of one submit the retriever is invoked once and first;
\* the channels are taken in the order of the request, the text of a channel
\* before its image; the scorer is invoked once, after the last channel and
\* before the terminal write, on the N primary copies and N images of the job.
C21_StagesInOrder ==
    \A j \in DOMAIN JOBS :
        LET chs == Request(j).channels
            log == h[j].log
            expected == ExpectedShapes(chs)
        IN  h[j].error = "" /\ h[j].pc # "except" =>
               /\ Len(log) <= Len(expected)
               /\ \A p \in DOMAIN log : Shape(log[p]) = expected[p]
               /\ JOBS[j].status = "completed" =>
                     /\ Len(log) = Len(expected)
                     /\ LET scored == log[Len(log) - 1].content
                            result == JOBS[j].result
                        IN  /\ Len(scored.copies) = Len(chs)
                            /\ Len(scored.images) = Len(chs)
                            /\ scored.images = result.images
                            /\ \A i \in DOMAIN chs :
                                  scored.copies[i] = result.multimodal_copies[i].primary

\* a job of two channels has completed: eight log entries
C21_Witness ==
    \E j \in DOMAIN JOBS :
        /\ JOBS[j].status = "completed"
        /\ Len(Request(j).channels) = 2
        /\ Len(h[j].log) = 8

\* C22: once a stage has raised for a job, no generation for a later channel
\* and no scoring is invoked for it, and the one write that follows is that
\* of the failed state.
C22_RaiseEndsThePipeline ==
    \A j \in DOMAIN JOBS :
        LET log == h[j].log
        IN  \A p \in DOMAIN log :
               (log[p].stage = "generate_text" /\ log[p].raised) =>
                  /\ \A q \in DOMAIN log :
                        q > p => (q = p + 1 /\ log[q] = [stage |-> "write", status |-> "failed"])
                  /\ \A q \in DOMAIN log : log[q].stage # "score_content"
                  /\ writes[j] <= 1
                  /\ JOBS[j].status \in {"processing", "failed"}
                  /\ JOBS[j].status = "failed" <=> Len(log) = p + 1

\* generate_text raised on the first of two channels; the submit has returned
C22_Witness ==
    \E j \in DOMAIN JOBS :
        /\ h[j].pc = "returned"
        /\ Len(Request(j).channels) = 2
        /\ \E p \in DOMAIN h[j].log :
              h[j].log[p].stage = "generate_text" /\ h[j].log[p].raised
        /\ writes[j] = 1

\* C23: when the scorer has a client, every image URL that is the placeholder
\* generate_image falls back to is scored 0.5 and every other URL 0.8.
C23_PlaceholderScoresHalf ==
    \A j \in DOMAIN JOBS :
        JOBS[j].status = "completed" =>
            LET chs == JOBS[j].input.channels
                images == JOBS[j].result.images
                metrics == JOBS[j].result.meta.score.metrics
            IN  "image_scores" \in DOMAIN metrics =>
                   \A i \in DOMAIN images :
                      metrics.image_scores[i] =
                         (IF IsPlaceholderUrl(images[i], chs[i], JOBS[j].input.title)
                          THEN 50 ELSE 80)

\* The measures the rules take of a primary copy: of the text of the model,
\* or of a templated copy, whose length is that of its pieces and of the
\* blank line before its note, and which has neither '#' nor a
\* call-to-action word for the titles and briefs submitted here.
PrimaryLen(primary) ==
    IF Len(primary) = 1 THEN ContentLen(primary[1])
    ELSE SumSeq([i \in DOMAIN primary |-> Len(primary[i])]) + 2

PrimaryHashtags(primary) == IF Len(primary) = 1 THEN ContentHashtags(primary[1]) ELSE 0

PrimaryHasCta(primary) ==
    /\ Len(primary) = 1
    /\ ContentWords(primary[1])
          \cap {"click", "visit", "shop", "buy", "learn", "discover", "try", "get"} # {}

\* 0.7, and 0.1 for each rule the primary copy satisfies on the channel.
RuleScore(primary, channel) ==
    LET len == PrimaryLen(primary)
        tags == PrimaryHashtags(primary)
        length_rule ==
            \/ channel = "twitter" /\ len < 200
            \/ channel \in {"facebook", "instagram"} /\ 100 < len /\ len < 400
        hashtag_rule ==
            \/ channel = "instagram" /\ 5 <= tags /\ tags <= 12
            \/ channel = "twitter" /\ 1 <= tags /\ tags <= 3
        sum == 70 + (IF length_rule THEN 10 ELSE 0) + (IF hashtag_rule THEN 10 ELSE 0)
                  + (IF PrimaryHasCta(primary) THEN 10 ELSE 0)
    IN  IF sum < 100 THEN sum ELSE 100

\* C24: the engagement_score of every result generate_text returns is 0.7
\* plus 0.1 for each rule its primary copy satisfies, at most 1.0, so it is
\* between 0.7 and 1.0.
C24_EngagementFollowsRules ==
    \A j \in JobIds :
        (h[j].call.fn = "generate_text" /\ ~h[j].call.raised) =>
            /\ h[j].text_result.engagement_score =
                  RuleScore(h[j].text_result.primary, h[j].call.channel)
            /\ 70 <= h[j].text_result.engagement_score
            /\ h[j].text_result.engagement_score <= 100

\* C25: when variations are asked for and one of the variation calls fails,
\* generate_text returns an empty list of variations, and does not raise.
C25_FailedVariationGivesNone ==
    \A j \in JobIds :
        (/\ h[j].call.fn = "generate_text"
         /\ \E k \in DOMAIN h[j].call.variation_responses :
               h[j].call.variation_responses[k].kind # "ok") =>
            /\ ~h[j].call.raised
            /\ h[j].text_result.variations = <<>>

\* float(text.split(criterion + ":")[1].split(",")[0].strip()) on the replies
\* of ScoreReplies, in hundredths; 0.7 when the criterion is not named.
CriterionValue(reply, criterion) ==
    CASE reply = "clarity: 0.9, compelling: 0.9, cta: 0.9, length: 0.9, tone: 0.9" -> 90
      [] reply = "clarity: 2, compelling: 2" /\ criterion \in {"clarity", "compelling"} -> 200
      [] OTHER -> 70

MeanOfCriteria(reply) ==
    (CriterionValue(reply, "clarity") + CriterionValue(reply, "compelling")
     + CriterionValue(reply, "cta") + CriterionValue(reply, "length")
     + CriterionValue(reply, "tone")) \div 5

\* C26: with a client, the score of each copy is the mean of the five
\* criteria read from the reply of the scoring model, 0.7 standing for each
\* criterion the reply does not give.
C26_CopyScoreIsMeanOfCriteria ==
    (probe.fn = "score_content" /\ probe.client = "OpenAI") =>
        \A i \in DOMAIN probe.content.copies :
            probe.out.metrics.copy_scores[i] = MeanOfCriteria(probe.reply)

C28_TemplateByChannel ==
    probe.fn = "promptify" =>
        LET input_data == probe.input_data
            channel == IF "channel" \in DOMAIN input_data
                       THEN input_data.channel ELSE "general"
            title == IF "title" \in DOMAIN input_data
                     THEN input_data.title ELSE "Untitled"
        IN  IF probe.renders
            THEN probe.out.template = TemplateFamily(channel)
            ELSE probe.out = <<"Create marketing content for ", channel, ": ",
                               title, " - ", input_data.brief>>

C28_Witness ==
    /\ probe.fn = "promptify"
    /\ probe.renders
    /\ "channel" \in DOMAIN probe.input_data
    /\ probe.input_data.channel = "twitter"
    /\ probe.out.template = "social_media"

OwnOutputs(j) ==
    LET req == Request(j)
        log == h[j].log
        starts == {p \in DOMAIN log : log[p].stage = "rag_retrieve"}
    IN  /\ JOBS[j].input = model_dump(req)
        /\ h[j].pc # "idle"
        /\ h[j].pc \notin {"retrieve", "idle"} => Cardinality(starts) = 1
        /\ writes[j] <= 1
        /\ JOBS[j].status = "completed" =>
              LET r == JOBS[j].result
              IN  /\ r.meta.brand_context.profile = BrandProfile(req.brand_profile_id)
                  /\ NoCredentials(env) => IsStaticContext(r.meta.brand_context, req)
                  /\ r.meta.prompt_used.title = req.title
                  /\ r.meta.prompt_used.brief = req.brief
                  /\ Len(r.multimodal_copies) = Len(req.channels)
                  /\ Len(r.images) = Len(req.channels)
                  /\ \A i \in DOMAIN req.channels :
                        /\ r.multimodal_copies[i].channel = req.channels[i]
                        /\ ImageIsFor(r.images[i], req.channels[i])
                        /\ NoCredentials(env) =>
                              /\ IsTemplatedCopy(r.multimodal_copies[i].primary,
                                                 req.channels[i], req.title, req.brief)
                              /\ IsPlaceholderUrl(r.images[i], req.channels[i], req.title)

\* a step that changes a job record is the terminal write of that job's own
\* handler, and it leaves every other record and handler alone; a step that
\* adds a record adds one, under an id no job has, and starts its handler
OwnRecordOnly ==
    /\ \A j \in DOMAIN JOBS :
          /\ j \in DOMAIN JOBS'
          /\ JOBS'[j] # JOBS[j] =>
                /\ h[j].pc \in {"complete", "except"}
                /\ h'[j].pc = "respond"
                /\ \A k \in DOMAIN JOBS \ {j} : JOBS'[k] = JOBS[k] /\ h'[k] = h[k]
    /\ Len(JOBS') # Len(JOBS) =>
          /\ Len(JOBS') = Len(JOBS) + 1
          /\ h[Len(JOBS')].pc = "idle"
          /\ h'[Len(JOBS')].pc = "retrieve"
          /\ \A k \in DOMAIN JOBS : h'[k] = h[k]

\* C30: submits that run at once get distinct job ids; each id has one
\* handler, which runs the pipeline once; a handler writes the record of its
\* own id only; and a completed result is made of the outputs generated from
\* the request submitted under that id.
C30_JobsAreIsolated ==
    /\ [](\A j \in DOMAIN JOBS : OwnOutputs(j))
    /\ [][OwnRecordOnly]_vars

\* the second of two different requests has completed while the first, which
\* will complete too, is about to write
C30_Witness ==
    /\ Len(JOBS) = 2
    /\ submitted[1] # submitted[2]
    /\ JOBS[2].status = "completed"
    /\ h[1].pc = "complete"
    /\ Request(1).title # Request(2).title

====
